---- MODULE Spec2Model ----
(***************************************************************************)
(* Model of rgb-std's indexed consignment adapter                          *)
(* (src/containers/indexed.rs) and of the transfer commitment              *)
(* (src/containers/transfer.rs).                                           *)
(*                                                                         *)
(* Ordered collections (BTreeSet, BTreeMap and their confined wrappers)    *)
(* are sequences in iteration order: a set is a strictly ascending         *)
(* sequence, a map a sequence of <<key, value>> ascending by key.  The     *)
(* index op_witness_ids is a function whose domain is the set of keys.     *)
(***************************************************************************)
EXTENDS Integers, Sequences, FiniteSets, TLC

(* ---------------------------------------------------------------- bounds *)
MaxOpId == 2
MaxBundles == 2
MaxIters == 2
MaxSeal == 2
MaxMember == 2
MaxLen == 2

OpIds == 1..MaxOpId
BundleIdSet == 1..MaxBundles
WitnessIds == 1..MaxBundles
IterIds == 1..MaxIters
LibIds == 1..2
TypeSysIds == 1..2

(* ------------------------------------------------------------- utilities *)
RECURSIVE SetToSeq(_)
\* the ascending sequence of a finite set of integers (BTree iteration order)
SetToSeq(S) ==
    IF S = {} THEN <<>>
    ELSE LET m == CHOOSE x \in S : \A y \in S : x <= y
         IN  <<m>> \o SetToSeq(S \ {m})

Range(s) == {s[i] : i \in DOMAIN s}

(* ---------------------------------------------------- consignment values *)
Anchor(w) == [witness_id |-> w]

\* XAnchor::witness_id_unchecked
witness_id_unchecked(anchor) == anchor.witness_id

\* AnchoredBundle::bundle_id
bundle_id(ab) == ab.bundle.id

AnchoredBundle(w, b, known) ==
    [anchor |-> Anchor(w),
     bundle |-> [id |-> b, known_transitions |-> SetToSeq(known)]]

\* every bundle collection: anchored bundles in ascending bundle id order,
\* one per bundle id present
BundleSeqs ==
    UNION { { [i \in 1..Cardinality(S) |->
                  AnchoredBundle(f[SetToSeq(S)[i]][1], SetToSeq(S)[i],
                                 f[SetToSeq(S)[i]][2])] :
              f \in [S -> WitnessIds \X SUBSET OpIds] } :
            S \in SUBSET BundleIdSet }

VARIABLES
    consignment,     \* the wrapped Consignment (immutable borrow)
    indexed,         \* TRUE once IndexedConsignment::new has returned
    op_witness_ids,  \* IndexedConsignment.op_witness_ids
    iters,           \* the live BundleIdIter values
    last,            \* the latest call and what it returned
    memo,            \* an earlier call and its result, kept for comparison
    script,          \* how the two transfers were filled: a field, two orders
    transfer,        \* the two Transfer values
    engine,          \* the CommitEngine handed to commit_encode, per transfer
    tid              \* the TransferId computed, per transfer

avars == <<consignment, indexed, op_witness_ids, iters, last, memo>>
tvars == <<script, transfer, engine, tid>>
vars == <<consignment, indexed, op_witness_ids, iters, last, memo,
          script, transfer, engine, tid>>

EmptyMap == [x \in {} |-> 0]
NoCall == [q |-> "none"]
NoIter == [live |-> FALSE, rest |-> <<>>, taken |-> 0]

Some(v) == [kind |-> "Some", val |-> v]
None == [kind |-> "None"]
Call(q, arg, res) == [q |-> q, arg |-> arg, res |-> res]

(* ------------------------------------------------------ ordered map/set *)
\* a map insert that keeps the value of a key already present
MapInsertKeep(m, k, v) ==
    [x \in (DOMAIN m) \cup {k} |-> IF x \in DOMAIN m THEN m[x] ELSE v]

\* BTreeMap::insert on the index: a later insert of a key replaces its value
MapInsert(m, k, v) ==
    [x \in (DOMAIN m) \cup {k} |-> IF x = k THEN v ELSE m[x]]

(* ------------------------------------------------- IndexedConsignment::new *)
\* an inner loop that records only the first known transition of a bundle
IndexKeysFirst(idx, keys, w) ==
    IF keys = <<>> THEN idx ELSE MapInsert(idx, Head(keys), w)

RECURSIVE IndexKeys(_, _, _)
\* the inner loop of new: for opid in ab.bundle.known_transitions.keys()
IndexKeys(idx, keys, w) ==
    IF keys = <<>> THEN idx
    ELSE IndexKeys(MapInsert(idx, Head(keys), w), Tail(keys), w)

RECURSIVE IndexBundles(_, _)
\* the outer loop of new: for ab in &consignment.bundles
IndexBundles(idx, bundles) ==
    IF bundles = <<>> THEN idx
    ELSE IndexBundles(
             IndexKeys(idx, Head(bundles).bundle.known_transitions,
                       witness_id_unchecked(Head(bundles).anchor)),
             Tail(bundles))

Halted == last.q \in {"program", "type_system"}

New ==
    /\ ~indexed
    /\ indexed' = TRUE
    /\ op_witness_ids' = IndexBundles(EmptyMap, consignment.bundles)
    /\ last' = Call("new", 0, None)
    /\ UNCHANGED <<consignment, iters, memo, tvars>>

(* ------------------------------------------------------- Consignment API *)
RECURSIVE FindKey(_, _)
FindKey(keys, opid) ==
    IF keys = <<>> THEN None
    ELSE IF Head(keys) = opid THEN Some([id |-> Head(keys)])
    ELSE FindKey(Tail(keys), opid)

RECURSIVE transition(_, _)
\* Consignment::transition: the first known transition with that id, bundles
\* visited in collection order
transition(bundles, opid) ==
    IF bundles = <<>> THEN None
    ELSE LET hit == FindKey(Head(bundles).bundle.known_transitions, opid)
         IN  IF hit.kind = "Some" THEN hit ELSE transition(Tail(bundles), opid)

RECURSIVE extension(_, _)
\* Consignment::extension: the extension with that id
extension(extensions, opid) ==
    IF extensions = <<>> THEN None
    ELSE IF Head(extensions).id = opid THEN Some(Head(extensions))
    ELSE extension(Tail(extensions), opid)

RECURSIVE anchored_bundle(_, _)
\* Consignment::anchored_bundle: the anchored bundle with that bundle id
anchored_bundle(bundles, bid) ==
    IF bundles = <<>> THEN None
    ELSE IF bundle_id(Head(bundles)) = bid THEN Some(Head(bundles))
    ELSE anchored_bundle(Tail(bundles), bid)

OpRef(variant, op) == [variant |-> variant, id |-> op.id]

\* a lookup that searches the transitions before comparing with the genesis
operationTransitionFirst(c, opid) ==
    LET t == transition(c.bundles, opid)
    IN  IF t.kind = "Some" THEN Some(OpRef("Transition", t.val))
        ELSE IF opid = c.genesis.id THEN Some(OpRef("Genesis", c.genesis))
        ELSE LET e == extension(c.extensions, opid)
             IN  IF e.kind = "Some" THEN Some(OpRef("Extension", e.val))
                 ELSE None

\* IndexedConsignment::operation
operation(c, opid) ==
    IF opid = c.genesis.id
    THEN Some(OpRef("Genesis", c.genesis))
    ELSE LET t == transition(c.bundles, opid)
         IN  IF t.kind = "Some" THEN Some(OpRef("Transition", t.val))
             ELSE LET e == extension(c.extensions, opid)
                  IN  IF e.kind = "Some" THEN Some(OpRef("Extension", e.val))
                      ELSE None

\* IndexedConsignment::op_witness_id
op_witness_id(idx, opid) ==
    IF opid \in DOMAIN idx THEN Some(idx[opid]) ELSE None

\* a query is answered by a live adapter on a thread that has not panicked
Ready == indexed /\ ~Halted

\* what a query of the adapter leaves alone (&self)
Frame == UNCHANGED <<consignment, indexed, op_witness_ids, iters, memo, tvars>>

Operation(opid) ==
    /\ Ready
    /\ last' = Call("operation", opid,
                  operation(consignment, opid))
    /\ Frame

OpWitnessId(opid) ==
    /\ Ready
    /\ last' = Call("op_witness_id", opid,
                  op_witness_id(op_witness_ids, opid))
    /\ Frame

(* -------------------------------------------------------------- terminals *)
\* the blinding of a revealed seal: a one-way, deterministic commitment
Blind(v) == 100 + v

Revealed(v) == [form |-> "revealed", v |-> v]
Concealed(s) == [form |-> "concealed", v |-> s]
SecretSeal(s) == [secret |-> s]

\* Conceal::conceal on a terminal seal: a revealed seal is blinded, a seal
\* already concealed gives the secret it carries
Conceal(seal) ==
    IF seal.form = "revealed" THEN SecretSeal(Blind(seal.v))
    ELSE SecretSeal(seal.v)

\* an inner loop that pushes the seal as it stands
PushSealsRaw(set, bid, seals) == set \cup {<<bid, seals[i]>> : i \in DOMAIN seals}

RECURSIVE PushSeals(_, _, _)
\* the inner loop of terminals: for seal in &terminal.seals
PushSeals(set, bid, seals) ==
    IF seals = <<>> THEN set
    ELSE PushSeals(set \cup {<<bid, Conceal(Head(seals))>>}, bid, Tail(seals))

RECURSIVE PushTerminals(_, _)
\* the outer loop of terminals: for (bundle_id, terminal) in &self.terminals
PushTerminals(set, terms) ==
    IF terms = <<>> THEN set
    ELSE PushTerminals(PushSeals(set, Head(terms)[1], Head(terms)[2].seals),
                       Tail(terms))

\* IndexedConsignment::terminals
terminals(c) == PushTerminals({}, c.terminals)

Terminals ==
    /\ Ready
    /\ last' = Call("terminals", 0,
                  [kind |-> "Set", val |-> terminals(consignment)])
    /\ Frame

(* ----------------------------------------------------- the other queries *)
Schema ==
    /\ Ready
    /\ last' = Call("schema", 0,
                  [kind |-> "Ref", val |-> consignment.schema])
    /\ Frame

AssetTags ==
    /\ Ready
    /\ last' = Call("asset_tags", 0,
                  [kind |-> "Ref", val |-> consignment.asset_tags])
    /\ Frame

GenesisCall ==
    /\ Ready
    /\ last' = Call("genesis", 0,
                  [kind |-> "Ref", val |-> consignment.genesis])
    /\ Frame

\* IndexedConsignment::anchored_bundle: a shared handle to a copy
AnchoredBundleCall(bid) ==
    /\ Ready
    /\ last' = Call("anchored_bundle", bid,
                  anchored_bundle(consignment.bundles, bid))
    /\ Frame

\* IndexedConsignment::program: the body is empty, no value is produced
Program(libs) ==
    /\ Ready
    /\ last' = Call("program", libs,
                  [kind |-> "unimplemented"])
    /\ Frame

\* IndexedConsignment::type_system: todo!()
TypeSystem(id) ==
    /\ Ready
    /\ last' = Call("type_system", id,
                  [kind |-> "panic"])
    /\ Frame

(* ------------------------------------------------------------ BundleIdIter *)
\* IndexedConsignment::bundle_ids: an iterator that owns a clone of the
\* bundle collection
BundleIds(i) ==
    /\ indexed
    /\ ~Halted
    /\ ~iters[i].live
    /\ iters' = [iters EXCEPT ![i] =
                    [live |-> TRUE, rest |-> consignment.bundles, taken |-> 0]]
    /\ last' = Call("bundle_ids", i, [kind |-> "Iter", val |-> consignment.bundles])
    /\ UNCHANGED <<consignment, indexed, op_witness_ids, memo, tvars>>

\* a next that yields the last element again instead of consuming it
nextKeepLast(it) ==
    IF it.rest = <<>> THEN [res |-> None, it |-> it]
    ELSE [res |-> Some(bundle_id(Head(it.rest))),
          it |-> [it EXCEPT !.rest = IF Len(@) = 1 THEN @ ELSE Tail(@),
                            !.taken = @ + 1]]

\* BundleIdIter::next: self.0.next().as_ref().map(AnchoredBundle::bundle_id)
next(it) ==
    IF it.rest = <<>> THEN [res |-> None, it |-> it]
    ELSE [res |-> Some(bundle_id(Head(it.rest))),
          it |-> [it EXCEPT !.rest = Tail(@), !.taken = @ + 1]]

\* a next that moves every live iterator (one shared cursor)
IterNextShared(i) ==
    /\ ~Halted
    /\ iters[i].live
    /\ iters' = [j \in IterIds |-> IF iters[j].live THEN next(iters[j]).it
                                   ELSE iters[j]]
    /\ last' = Call("next", i, next(iters[i]).res)
    /\ UNCHANGED <<consignment, indexed, op_witness_ids, memo, tvars>>

IterNext(i) ==
    /\ ~Halted
    /\ iters[i].live
    /\ iters' = [iters EXCEPT ![i] = next(iters[i]).it]
    /\ last' = Call("next", i, next(iters[i]).res)
    /\ UNCHANGED <<consignment, indexed, op_witness_ids, memo, tvars>>

\* the observer keeps the latest call for comparison with later ones
Observe ==
    /\ last.q \notin {"none", "new", "next", "bundle_ids"}
    /\ memo' = last
    /\ UNCHANGED <<consignment, indexed, op_witness_ids, iters, last, tvars>>

(* ------------------------------------------------------ index: C1, C2, C10 *)
Genesis(g) == [id |-> g]
Extension(e) == [id |-> e]

ExtSeq(E) == [i \in 1..Cardinality(E) |-> Extension(SetToSeq(E)[i])]

Consignment(g, bundles, exts, terms) ==
    [schema |-> [schema_id |-> 1],
     asset_tags |-> <<<<1, 1>>>>,
     genesis |-> Genesis(g),
     bundles |-> bundles,
     extensions |-> exts,
     terminals |-> terms]

InitNoTransfer ==
    /\ script = [field |-> "none", ord |-> [t \in {} |-> <<>>]]
    /\ transfer = [t \in {} |-> 0]
    /\ engine = [t \in {} |-> <<>>]
    /\ tid = [t \in {} |-> None]

InitAdapter ==
    /\ indexed = FALSE
    /\ op_witness_ids = EmptyMap
    /\ iters = [i \in IterIds |-> NoIter]
    /\ last = NoCall
    /\ memo = NoCall

InitRest == InitAdapter /\ InitNoTransfer

InitIdx ==
    /\ \E g \in OpIds, bs \in BundleSeqs,
          E \in {X \in SUBSET OpIds : Cardinality(X) <= 1} :
            consignment = Consignment(g, bs, ExtSeq(E), <<>>)
    /\ InitRest

NextIdx ==
    \/ New
    \/ \E opid \in OpIds : Operation(opid)
    \/ \E opid \in OpIds : OpWitnessId(opid)

SpecIdx == InitIdx /\ [][NextIdx]_vars

(* -------------------------------------------------------- terminals: C3 *)
Seals == {Revealed(v) : v \in 1..MaxSeal} \cup {Concealed(Blind(1))}
SealCode(seal) == 2 * seal.v + (IF seal.form = "revealed" THEN 1 ELSE 0)
SealOfCode(n) == CHOOSE seal \in Seals : SealCode(seal) = n

\* a seal set in iteration order
SealSeq(S) ==
    [i \in 1..Cardinality(S) |-> SealOfCode(SetToSeq({SealCode(x) : x \in S})[i])]

Terminal(S) == [seals |-> SealSeq(S)]

\* every terminals map: keys ascending, one seal set per key
TerminalSeqs ==
    UNION { { [i \in 1..Cardinality(K) |->
                  <<SetToSeq(K)[i], Terminal(f[SetToSeq(K)[i]])>>] :
              f \in [K -> SUBSET Seals] } :
            K \in SUBSET BundleIdSet }

\* one anchored bundle per bundle id, each knowing the transition 1
FullBundles == [b \in BundleIdSet |-> AnchoredBundle(1, b, {1})]

InitTerm ==
    /\ \E ts \in TerminalSeqs :
          consignment = Consignment(1, FullBundles, <<>>, ts)
    /\ InitRest

NextTerm ==
    \/ New
    \/ Terminals

SpecTerm == InitTerm /\ [][NextTerm]_vars

(* --------------------------------------------------- whole API: C4, C8, C9 *)
ApiBundleSeqs ==
    {bs \in BundleSeqs :
        \A i \in DOMAIN bs :
            /\ bs[i].anchor = Anchor(bundle_id(bs[i]))
            /\ bs[i].bundle.known_transitions = <<1>>}

InitApi ==
    /\ \E bs \in ApiBundleSeqs :
          consignment = Consignment(1, bs, <<Extension(MaxOpId)>>,
                                    <<<<1, Terminal({Revealed(1)})>>>>)
    /\ InitRest

NextApi ==
    \/ New
    \/ Schema
    \/ AssetTags
    \/ GenesisCall
    \/ Terminals
    \/ \E opid \in OpIds : Operation(opid)
    \/ \E bid \in BundleIdSet : AnchoredBundleCall(bid)
    \/ \E opid \in OpIds : OpWitnessId(opid)
    \/ \E libs \in SUBSET LibIds : Program(libs)
    \/ \E id \in TypeSysIds : TypeSystem(id)
    \/ \E i \in IterIds : BundleIds(i)
    \/ \E i \in IterIds : IterNext(i)
    \/ Observe

SpecApi == InitApi /\ [][NextApi]_vars

(* ------------------------------------------------ Transfer: C5, C6 *)
Members == 1..MaxMember
Vals == 1..2
Items == Members \X Vals
Sides == {"A", "B"}

SetFields == {"extensions", "supplements"}
KeyedSetFields == {"bundles"}
MapFields == {"ifaces", "terminals", "attachments", "asset_tags", "signatures"}
Fields == SetFields \cup KeyedSetFields \cup MapFields

LexLess(a, b) == a[1] < b[1] \/ (a[1] = b[1] /\ a[2] < b[2])

\* a push that keeps the order of arrival
InsertAppend(s, x, byKey, replace) == Append(s, x)

RECURSIVE InsertAt(_, _, _, _)
\* insertion into a BTreeSet / BTreeMap kept in ascending order: byKey
\* compares the first component only, replace tells whether an equal entry
\* is replaced (map) or kept (set)
InsertAt(s, x, byKey, replace) ==
    IF s = <<>> THEN <<x>>
    ELSE LET h == Head(s)
             same == IF byKey THEN h[1] = x[1] ELSE h = x
             before == IF byKey THEN x[1] < h[1] ELSE LexLess(x, h)
         IN  IF same THEN (IF replace THEN <<x>> ELSE <<h>>) \o Tail(s)
             ELSE IF before THEN <<x>> \o s
             ELSE <<h>> \o InsertAt(Tail(s), x, byKey, replace)

RECURSIVE FromIterUnsafe(_, _)
\* Confined<BTreeSet>::from_iter_unsafe on a collection within its size
\* bound: every item of the iterator is pushed into an ordered set
FromIterUnsafe(set, iter) ==
    IF iter = <<>> THEN set
    ELSE FromIterUnsafe(InsertAt(set, Head(iter), FALSE, FALSE), Tail(iter))

\* the entry a field holds for an item <<k, v>> of the script
Entry(field, item) ==
    IF field = "terminals"
    THEN <<item[1], [seals |-> <<Revealed(item[2])>>]>>
    ELSE item

RECURSIVE Fill(_, _, _)
\* a collection field filled by pushing the items in the given order
Fill(col, field, ord) ==
    IF ord = <<>> THEN col
    ELSE Fill(InsertAt(col, Entry(field, Head(ord)),
                       field \notin SetFields, field \in MapFields),
              field, Tail(ord))

EmptyTransfer ==
    [version |-> 1, transfer |-> TRUE, genesis |-> Genesis(1),
     ifaces |-> <<>>, bundles |-> <<>>, extensions |-> <<>>,
     terminals |-> <<>>, attachments |-> <<>>, supplements |-> <<>>,
     asset_tags |-> <<>>, signatures |-> <<>>]

RECURSIVE FillAll(_, _)
\* every collection field of the given set filled with the one item <<1, 1>>
FillAll(tr, fields) ==
    IF fields = {} THEN tr
    ELSE LET f == CHOOSE x \in fields : TRUE
         IN  FillAll([tr EXCEPT ![f] = Fill(<<>>, f, <<<<1, 1>>>>)], fields \ {f})

\* a transfer whose field `field` was filled in the order `ord`
Build(field, ord) ==
    [FillAll(EmptyTransfer, Fields \ {field}) EXCEPT ![field] = Fill(<<>>, field, ord)]

\* Consignment::contract_id
contract_id(tr) == [contract |-> tr.genesis.id]

\* disclose_hash of the genesis, of a bundle, of an extension: a digest; for
\* the pair <<a, b>> it is ordered otherwise than the pair itself
disclose_hash(x) == <<x[2], x[1]>>
genesis_disclose_hash(g) == [disclosed |-> g.id]

\* IfaceImpl::impl_id of the pair stored for an interface
impl_id(pair) == <<pair, 0>>

Map1(s) == [i \in DOMAIN s |-> s[i][1]]
Map2(s) == [i \in DOMAIN s |-> s[i][2]]

RECURSIVE terminals_disclose(_)
\* Consignment::terminals_disclose: the (bundle id, concealed seal) pairs of
\* the terminals, in iteration order
terminals_disclose(terms) ==
    IF terms = <<>> THEN <<>>
    ELSE [i \in DOMAIN Head(terms)[2].seals |->
              <<Head(terms)[1], Conceal(Head(terms)[2].seals[i]).secret>>]
         \o terminals_disclose(Tail(terms))

\* CommitEngine::commit_to_serialized
commit_to_serialized(e, ty, v) ==
    Append(e, [how |-> "serialized", ty |-> ty, val |-> v])

\* CommitEngine::commit_to_set: the members in the set's iteration order
commit_to_set(e, ty, set) == Append(e, [how |-> "set", ty |-> ty, val |-> set])

\* CommitEngine::commit_to_map: the entries in the map's iteration order
commit_to_map(e, ty, map) == Append(e, [how |-> "map", ty |-> ty, val |-> map])

\* a commit_encode that commits to the bundles before the interfaces
commit_encode_swapped(tr, e) ==
    LET e1 == commit_to_serialized(e, "version", tr.version)
        e2 == commit_to_serialized(e1, "transfer", tr.transfer)
        e3 == commit_to_serialized(e2, "contract_id", contract_id(tr))
        e4 == commit_to_serialized(e3, "genesis", genesis_disclose_hash(tr.genesis))
        e5 == commit_to_set(e4, "bundles",
                  FromIterUnsafe(<<>>, [i \in DOMAIN tr.bundles |->
                                           disclose_hash(tr.bundles[i])]))
        e6 == commit_to_set(e5, "ifaces",
                  FromIterUnsafe(<<>>, [i \in DOMAIN tr.ifaces |->
                                           impl_id(Map2(tr.ifaces)[i])]))
        e7 == commit_to_set(e6, "extensions",
                  FromIterUnsafe(<<>>, [i \in DOMAIN tr.extensions |->
                                           disclose_hash(tr.extensions[i])]))
        e8 == commit_to_set(e7, "terminals",
                  FromIterUnsafe(<<>>, terminals_disclose(tr.terminals)))
        e9 == commit_to_set(e8, "attachments",
                  FromIterUnsafe(<<>>, [i \in DOMAIN tr.attachments |->
                                           <<Map1(tr.attachments)[i], 0>>]))
        e10 == commit_to_set(e9, "supplements", tr.supplements)
        e11 == commit_to_map(e10, "asset_tags", tr.asset_tags)
    IN  commit_to_map(e11, "signatures", tr.signatures)

\* Transfer::commit_encode
commit_encode(tr, e) ==
    LET e1 == commit_to_serialized(e, "version", tr.version)
        e2 == commit_to_serialized(e1, "transfer", tr.transfer)
        e3 == commit_to_serialized(e2, "contract_id", contract_id(tr))
        e4 == commit_to_serialized(e3, "genesis", genesis_disclose_hash(tr.genesis))
        e5 == commit_to_set(e4, "ifaces",
                  FromIterUnsafe(<<>>, [i \in DOMAIN tr.ifaces |->
                                           impl_id(Map2(tr.ifaces)[i])]))
        e6 == commit_to_set(e5, "bundles",
                  FromIterUnsafe(<<>>, [i \in DOMAIN tr.bundles |->
                                           disclose_hash(tr.bundles[i])]))
        e7 == commit_to_set(e6, "extensions",
                  FromIterUnsafe(<<>>, [i \in DOMAIN tr.extensions |->
                                           disclose_hash(tr.extensions[i])]))
        e8 == commit_to_set(e7, "terminals",
                  FromIterUnsafe(<<>>, terminals_disclose(tr.terminals)))
        e9 == commit_to_set(e8, "attachments",
                  FromIterUnsafe(<<>>, [i \in DOMAIN tr.attachments |->
                                           <<Map1(tr.attachments)[i], 0>>]))
        e10 == commit_to_set(e9, "supplements", tr.supplements)
        e11 == commit_to_map(e10, "asset_tags", tr.asset_tags)
    IN  commit_to_map(e11, "signatures", tr.signatures)

\* CommitmentId::TAG of TransferId
TAG == "urn:lnp-bp:rgb:transfer#2024-02-04"

\* CommitId::commit_id: a fresh engine under the tag, commit_encode, finish
commit_id(tr) == [tag |-> TAG, digest |-> commit_encode(tr, <<>>)]

CommitEncode(t) ==
    /\ engine[t] = <<>>
    /\ engine' = [engine EXCEPT ![t] = commit_encode(transfer[t], engine[t])]
    /\ UNCHANGED <<avars, script, transfer, tid>>

\* Transfer::transfer_id
TransferId(t) ==
    /\ tid[t] = None
    /\ tid' = [tid EXCEPT ![t] = Some(commit_id(transfer[t]))]
    /\ UNCHANGED <<avars, script, transfer, engine>>

Perms(s) ==
    {[i \in DOMAIN s |-> s[p[i]]] :
        p \in {q \in [DOMAIN s -> DOMAIN s] : \A i, j \in DOMAIN s : i # j => q[i] # q[j]}}

Scripts == UNION {[1..n -> Items] : n \in 0..MaxLen}

InitTr ==
    /\ \E f \in Fields, a \in Scripts :
          \E b \in Perms(a) :
              /\ script = [field |-> f, ord |-> [t \in Sides |-> IF t = "A" THEN a ELSE b]]
              /\ transfer = [t \in Sides |-> Build(f, IF t = "A" THEN a ELSE b)]
    /\ engine = [t \in Sides |-> <<>>]
    /\ tid = [t \in Sides |-> None]
    /\ consignment = Consignment(1, <<>>, <<>>, <<>>)
    /\ InitAdapter

NextTr ==
    \/ \E t \in Sides : CommitEncode(t)
    \/ \E t \in Sides : TransferId(t)

SpecTr == InitTr /\ [][NextTr]_vars

(* --------------------------------------------------------------- claims *)
Bundles == consignment.bundles
NBundles == Len(Bundles)
Known(i) == Range(Bundles[i].bundle.known_transitions)
WitnessOf(i) == Bundles[i].anchor.witness_id
AllKnown == UNION {Known(i) : i \in 1..NBundles}
ExtensionIds == {consignment.extensions[i].id : i \in DOMAIN consignment.extensions}

DisjointBundles ==
    \A i, j \in 1..NBundles : i # j => Known(i) \cap Known(j) = {}

RECURSIVE TotalKnown(_)
TotalKnown(n) == IF n = 0 THEN 0 ELSE Cardinality(Known(n)) + TotalKnown(n - 1)

\* C1: when the known-transition id sets of the bundles are pairwise
\* disjoint and cover m operations in total, the index built by new has
\* exactly m entries, op_witness_id(o) is the witness of the one bundle that
\* contains o, and op_witness_id(x) is None for every id x in no bundle.
C1_DisjointIndex ==
    (indexed /\ DisjointBundles) =>
        /\ Cardinality(DOMAIN op_witness_ids) = TotalKnown(NBundles)
        /\ \A o \in OpIds :
              /\ \A i \in 1..NBundles :
                    o \in Known(i) =>
                        op_witness_id(op_witness_ids, o) = Some(WitnessOf(i))
              /\ o \notin AllKnown => op_witness_id(op_witness_ids, o) = None
        /\ (last.q = "op_witness_id" =>
                last.res = IF last.arg \in AllKnown
                           THEN Some(WitnessOf(CHOOSE i \in 1..NBundles :
                                                   last.arg \in Known(i)))
                           ELSE None)

C1_Witness ==
    /\ indexed /\ DisjointBundles /\ NBundles = 2
    /\ Cardinality(Known(1)) = 1 /\ Cardinality(Known(2)) = 1
    /\ WitnessOf(1) # WitnessOf(2)
    /\ last.q = "op_witness_id" /\ last.arg \in Known(2)
    /\ last.res = Some(WitnessOf(2))

\* C2: operation(id) is the genesis when id is the genesis id (even when a
\* transition or an extension has that id), else the transition with that
\* id when a bundle knows one, else the extension with that id, else None;
\* an operation returned has the queried id.
C2_OperationPriority ==
    last.q = "operation" =>
        LET id == last.arg
            want == IF id = consignment.genesis.id THEN "Genesis"
                    ELSE IF id \in AllKnown THEN "Transition"
                    ELSE IF id \in ExtensionIds THEN "Extension"
                    ELSE "None"
        IN  IF want = "None" THEN last.res = None
            ELSE /\ last.res.kind = "Some"
                 /\ last.res.val.variant = want
                 /\ last.res.val.id = id

C2_Witness ==
    /\ last.q = "operation"
    /\ last.arg = consignment.genesis.id
    /\ last.arg \in AllKnown
    /\ last.arg \in ExtensionIds
    /\ last.res = Some([variant |-> "Genesis", id |-> last.arg])

\* C10: the index holds one entry per distinct known-transition id of the
\* bundles, each id mapped to a single witness: that of the last bundle, in
\* collection order, that knows the id; an id that is only the genesis or an
\* extension has no entry.
C10_LastBundleWins ==
    indexed =>
        /\ DOMAIN op_witness_ids = AllKnown
        /\ \A o \in AllKnown :
              LET lastIdx == CHOOSE i \in 1..NBundles :
                                /\ o \in Known(i)
                                /\ \A j \in 1..NBundles : o \in Known(j) => j <= i
              IN  op_witness_ids[o] = WitnessOf(lastIdx)
        /\ \A o \in ({consignment.genesis.id} \cup ExtensionIds) \ AllKnown :
              o \notin DOMAIN op_witness_ids

C10_Witness ==
    /\ indexed /\ NBundles = 2
    /\ \E o \in Known(1) \cap Known(2) :
          /\ WitnessOf(1) # WitnessOf(2)
          /\ op_witness_ids[o] = WitnessOf(2)
    /\ consignment.genesis.id \notin AllKnown
    /\ ExtensionIds # {} /\ ExtensionIds \cap AllKnown = {}

\* C3: terminals() is exactly the set of (bundle id, conceal(seal)) over every
\* terminal entry and every seal of it: every returned seal is a secret seal,
\* the concealed form of a seal of that bundle id, and no seal is left out.
C3_TerminalsConcealed ==
    last.q = "terminals" =>
        LET orig == UNION { {<<consignment.terminals[i][1],
                               consignment.terminals[i][2].seals[j]>> :
                               j \in DOMAIN consignment.terminals[i][2].seals} :
                            i \in DOMAIN consignment.terminals }
        IN  /\ last.res.val = {<<e[1], Conceal(e[2])>> : e \in orig}
            /\ \A r \in last.res.val :
                  /\ DOMAIN r[2] = {"secret"}
                  /\ \E e \in orig : e[1] = r[1] /\ r[2] = Conceal(e[2])
            /\ \A e \in orig : <<e[1], Conceal(e[2])>> \in last.res.val

C3_Witness ==
    /\ last.q = "terminals"
    /\ Len(consignment.terminals) = 2
    /\ Len(consignment.terminals[1][2].seals) >= 2
    /\ \E j \in DOMAIN consignment.terminals[2][2].seals :
          consignment.terminals[2][2].seals[j].form = "revealed"
    /\ Cardinality(last.res.val) >= 3

\* C4: an iterator from bundle_ids() over n anchored bundles yields, on its
\* k-th call for k <= n, the bundle id of the k-th bundle of the collection,
\* returns None on every call after the n-th, and once exhausted stays so.
C4_BundleIdsOnePass ==
    /\ [](\A i \in IterIds :
            iters[i].live => iters[i].taken + Len(iters[i].rest) = NBundles)
    /\ [](last.q = "next" =>
            LET it == iters[last.arg]
            IN  IF last.res.kind = "Some"
                THEN /\ it.taken \in 1..NBundles
                     /\ last.res.val = bundle_id(Bundles[it.taken])
                     /\ it.rest = SubSeq(Bundles, it.taken + 1, NBundles)
                ELSE it.taken = NBundles /\ it.rest = <<>>)
    /\ [][\A i \in IterIds :
            (iters[i].live /\ iters[i].rest = <<>>) =>
                (iters'[i].live /\ iters'[i].rest = <<>>)]_vars

C4_Witness ==
    \E i \in IterIds :
        /\ NBundles = 2
        /\ last.q = "next" /\ last.arg = i
        /\ last.res = None
        /\ iters[i].taken = 2

\* C8: program(libs) and type_system(id) return a defined result for every
\* argument (Ok / Err(lib id), Some / None) and never panic or stay
\* unimplemented.
C8_LookupsDefined ==
    last.q \in {"program", "type_system"} =>
        last.res.kind \in {"Ok", "Err", "Some", "None"}

PureQueries ==
    {"schema", "asset_tags", "operation", "genesis", "terminals",
     "anchored_bundle", "op_witness_id"}

\* C9: once new has returned, no query and no iterator step changes the
\* consignment or the index; a query asked again with the same argument
\* returns the same result; advancing one iterator leaves the others alone.
C9_ReadOnly ==
    /\ [][indexed =>
            /\ indexed'
            /\ consignment' = consignment
            /\ op_witness_ids' = op_witness_ids]_vars
    /\ []((/\ memo.q \in PureQueries
           /\ memo.q = last.q
           /\ memo.arg = last.arg) => memo.res = last.res)
    /\ [][\A i, j \in IterIds :
            (i # j /\ iters'[i] # iters[i]) => iters'[j] = iters[j]]_vars

C9_Witness ==
    /\ memo.q = "op_witness_id" /\ memo.arg = 1 /\ memo.res.kind = "Some"
    /\ last.q = "op_witness_id" /\ last.arg = 1
    /\ \E i, j \in IterIds :
          /\ i # j
          /\ iters[i].live /\ iters[i].taken = 1
          /\ iters[j].live /\ iters[j].taken = 0 /\ Len(iters[j].rest) = 2

SameContent(x, y) ==
    /\ x.version = y.version /\ x.transfer = y.transfer /\ x.genesis = y.genesis
    /\ \A f \in Fields : Range(x[f]) = Range(y[f])

Steps ==
    <<<<"serialized", "version">>, <<"serialized", "transfer">>,
      <<"serialized", "contract_id">>, <<"serialized", "genesis">>,
      <<"set", "ifaces">>, <<"set", "bundles">>, <<"set", "extensions">>,
      <<"set", "terminals">>, <<"set", "attachments">>, <<"set", "supplements">>,
      <<"map", "asset_tags">>, <<"map", "signatures">>>>

\* what step k commits to, as a set of members (or the value itself)
Committed(tr, k) ==
    CASE k = 1 -> tr.version
      [] k = 2 -> tr.transfer
      [] k = 3 -> [contract |-> tr.genesis.id]
      [] k = 4 -> [disclosed |-> tr.genesis.id]
      [] k = 5 -> {<<tr.ifaces[i][2], 0>> : i \in DOMAIN tr.ifaces}
      [] k = 6 -> {<<tr.bundles[i][2], tr.bundles[i][1]>> : i \in DOMAIN tr.bundles}
      [] k = 7 -> {<<tr.extensions[i][2], tr.extensions[i][1]>> : i \in DOMAIN tr.extensions}
      [] k = 8 -> UNION { {<<tr.terminals[i][1], Conceal(tr.terminals[i][2].seals[j]).secret>> :
                             j \in DOMAIN tr.terminals[i][2].seals} :
                          i \in DOMAIN tr.terminals }
      [] k = 9 -> {<<tr.attachments[i][1], 0>> : i \in DOMAIN tr.attachments}
      [] k = 10 -> Range(tr.supplements)
      [] k = 11 -> Range(tr.asset_tags)
      [] k = 12 -> Range(tr.signatures)

\* C6: commit_encode feeds the engine exactly twelve commitments, once each
\* and in the order version, transfer tag, contract id, genesis disclosure
\* hash, interface implementation ids, bundle disclosure hashes, extension
\* disclosure hashes, terminals, attachment ids, supplements, asset tags,
\* signatures.
C6_TwelveStepsInOrder ==
    \A t \in DOMAIN engine :
        engine[t] # <<>> =>
            /\ Len(engine[t]) = 12
            /\ \A k \in 1..12 :
                  /\ <<engine[t][k].how, engine[t][k].ty>> = Steps[k]
                  /\ IF k <= 4 THEN engine[t][k].val = Committed(transfer[t], k)
                     ELSE Range(engine[t][k].val) = Committed(transfer[t], k)

C6_Witness ==
    /\ script.field = "bundles"
    /\ Len(engine["A"]) = 12
    /\ Len(engine["A"][6].val) = 2
    /\ Len(engine["A"][5].val) = 1

====
